---- MODULE Spec2Model ----
(***************************************************************************)
(* Model of the CycloneDX -> SPDX converter (create_spdx_sbom.py) and of   *)
(* the SPDX pruner (remove_test_dependencies.py).                          *)
(*                                                                         *)
(* Strings are sequences of one-character strings, so that sanitising,     *)
(* splitting and concatenation are computed as the code computes them.     *)
(* The fixed prefixes "SPDXRef-Package-", "SPDXRef-Application-" and the   *)
(* literal "SPDXRef-DOCUMENT" are single leading tokens of an identifier.  *)
(* A Python dict with optional keys is a function whose DOMAIN is the set  *)
(* of keys present.                                                        *)
(***************************************************************************)
EXTENDS Integers, Sequences, FiniteSets, TLC

(***************************************************************************)
(* Bounds of the model.                                                    *)
(***************************************************************************)
MaxComponents == 3
MaxEdges == 2
MaxRuns == 2
MaxPackages == 2
MaxRelationships == 2

(***************************************************************************)
(* Generic helpers.                                                        *)
(***************************************************************************)
Range(s) == {s[i] : i \in 1..Len(s)}

SeqsUpTo(S, n) == UNION {[1..k -> S] : k \in 0..n}

Orders(S) == {o \in [1..Cardinality(S) -> S] : Range(o) = S}

Get(d, k, default) == IF k \in DOMAIN d THEN d[k] ELSE default

Put(d, k, v) == [x \in DOMAIN d \cup {k} |-> IF x = k THEN v ELSE d[x]]

EmptyDict == [k \in {} |-> <<>>]

\* Python's None where a string is expected (a JSON null): a value that is no
\* sequence of characters
Null == <<"null">>

\* Python's None where a document is expected
None == EmptyDict

\* "not v" for a string or None
Falsy(v) == v \in {<<>>, Null}

\* f"{v}" and str(v)
Format(v) == IF v = Null THEN <<"N", "o", "n", "e">> ELSE v

(***************************************************************************)
(* Characters and string operations (re.sub, str.strip, str.split, str).   *)
(***************************************************************************)
Alnum ==
    {"a", "b", "c", "d", "e", "f", "g", "h", "i", "j", "k", "l", "m",
     "n", "o", "p", "q", "r", "s", "t", "u", "v", "w", "x", "y", "z",
     "A", "B", "C", "D", "E", "F", "G", "H", "I", "J", "K", "L", "M",
     "N", "O", "P", "Q", "R", "S", "T", "U", "V", "W", "X", "Y", "Z",
     "0", "1", "2", "3", "4", "5", "6", "7", "8", "9"}

DigitChars == <<"0", "1", "2", "3", "4", "5", "6", "7", "8", "9">>

\* str(n) for n >= 0
RECURSIVE Str(_)
Str(n) ==
    IF n < 10 THEN <<DigitChars[n + 1]>>
    ELSE Str(n \div 10) \o <<DigitChars[(n % 10) + 1]>>

\* re.sub(r'[^a-zA-Z0-9]', '-', s)
ReplaceNonAlnum(s) == [i \in 1..Len(s) |-> IF s[i] \in Alnum THEN s[i] ELSE "-"]

\* re.sub(r'-+', '-', s)
RECURSIVE CollapseHyphens(_)
CollapseHyphens(s) ==
    IF Len(s) < 2 THEN s
    ELSE IF s[1] = "-" /\ s[2] = "-" THEN CollapseHyphens(Tail(s))
    ELSE <<s[1]>> \o CollapseHyphens(Tail(s))

\* s.strip('-')
RECURSIVE StripHyphens(_)
StripHyphens(s) ==
    IF s = <<>> THEN s
    ELSE IF s[1] = "-" THEN StripHyphens(Tail(s))
    ELSE IF s[Len(s)] = "-" THEN StripHyphens(SubSeq(s, 1, Len(s) - 1))
    ELSE s

Sanitize(s) == StripHyphens(CollapseHyphens(ReplaceNonAlnum(s)))

\* s.split(c) for a one-character separator c
RECURSIVE SplitChar(_, _, _)
SplitChar(s, c, cur) ==
    IF s = <<>> THEN <<cur>>
    ELSE IF s[1] = c THEN <<cur>> \o SplitChar(Tail(s), c, <<>>)
    ELSE SplitChar(Tail(s), c, Append(cur, s[1]))

SchemeAt(s, i) ==
    /\ i + 2 <= Len(s)
    /\ s[i] = ":" /\ s[i + 1] = "/" /\ s[i + 2] = "/"

\* s.split('://')[-1] if '://' in s else s
StripScheme(s) ==
    LET at == {i \in 1..Len(s) : SchemeAt(s, i)}
    IN  IF at = {} THEN s
        ELSE LET last == CHOOSE i \in at : \A j \in at : j <= i
             IN  SubSeq(s, last + 3, Len(s))

(***************************************************************************)
(* Identifiers.                                                            *)
(***************************************************************************)
DocumentId == <<"SPDXRef-DOCUMENT">>

\* f"SPDXRef-Application-{project_uuid}-{document_uuid}"
ApplicationId(project_uuid, document_uuid) ==
    <<"SPDXRef-Application-", project_uuid, "-">> \o document_uuid

BaseId(component_name, component_version) ==
    LET sanitized_name == Sanitize(component_name)
        sanitized_version ==
            IF ~Falsy(component_version) THEN Sanitize(Format(component_version))
            ELSE <<>>
    IN  IF sanitized_version # <<>>
        THEN <<"SPDXRef-Package-">> \o sanitized_name \o <<"-">> \o sanitized_version
        ELSE <<"SPDXRef-Package-">> \o sanitized_name

\* a plausible slip: the uniqueness loop is skipped
UniqueFromNoLoop(base_id, unique_id, counter, used_ids) == unique_id

\* a plausible slip: the counter is advanced before the first suffix is tried
RECURSIVE UniqueFromCounterFirst(_, _, _, _)
UniqueFromCounterFirst(base_id, unique_id, counter, used_ids) ==
    IF unique_id \in used_ids
    THEN UniqueFromCounterFirst(base_id, base_id \o <<"-">> \o Str(counter + 1),
                                counter + 1, used_ids)
    ELSE unique_id

\* the while loop of generate_unique_spdx_id
RECURSIVE UniqueFrom(_, _, _, _)
UniqueFrom(base_id, unique_id, counter, used_ids) ==
    IF unique_id \in used_ids
    THEN UniqueFrom(base_id, base_id \o <<"-">> \o Str(counter), counter + 1, used_ids)
    ELSE unique_id

\* returns the identifier and the used-ID set after the call
generate_unique_spdx_id(component_name, component_version, used_ids) ==
    LET base_id == BaseId(component_name, component_version)
        unique_id == UniqueFrom(base_id, base_id, 1, used_ids)
    IN  [id |-> unique_id, used |-> used_ids \cup {unique_id}]

(***************************************************************************)
(* String literals of the sources, spelled out as character sequences.     *)
(***************************************************************************)
NOASSERTION == <<"N", "O", "A", "S", "S", "E", "R", "T", "I", "O", "N">>

DefaultComponentName ==
    <<"U", "n", "k", "n", "o", "w", "n", " ",
      "C", "o", "m", "p", "o", "n", "e", "n", "t">>

DefaultComponentVersion == <<"0", ".", "0", ".", "0">>

AndSeparator == <<" ", "A", "N", "D", " ">>

ApplicationVersion == <<"1", ".", "0", ".", "0">>

\* " AND ".join(ids)
RECURSIVE JoinAnd(_)
JoinAnd(ids) ==
    IF ids = <<>> THEN <<>>
    ELSE IF Len(ids) = 1 THEN ids[1]
    ELSE ids[1] \o AndSeparator \o JoinAnd(Tail(ids))

(***************************************************************************)
(* Component -> package mapper (the body of the component loop).           *)
(***************************************************************************)
SupplierName(component) ==
    LET supplier_name == Get(Get(component, "supplier", EmptyDict), "name", NOASSERTION)
    IN  IF Falsy(supplier_name) /\ "publisher" \in DOMAIN component
        THEN component["publisher"]
        ELSE supplier_name

RECURSIVE FirstLocation(_)
FirstLocation(refs) ==
    IF refs = <<>> THEN NOASSERTION
    ELSE IF Get(refs[1], "type", <<>>) \in {<<"v", "c", "s">>,
             <<"d", "i", "s", "t", "r", "i", "b", "u", "t", "i", "o", "n">>}
         THEN Get(refs[1], "url", NOASSERTION)
         ELSE FirstLocation(Tail(refs))

\* a plausible slip: the purl also serves when the reference list has no match
DownloadLocationPurlFallback(component) ==
    IF "externalReferences" \in DOMAIN component
       /\ FirstLocation(component["externalReferences"]) # NOASSERTION
    THEN FirstLocation(component["externalReferences"])
    ELSE Get(component, "purl", NOASSERTION)

DownloadLocation(component) ==
    IF "externalReferences" \in DOMAIN component
    THEN FirstLocation(component["externalReferences"])
    ELSE Get(component, "purl", NOASSERTION)

\* a plausible slip: the name is preferred to the id
LicenseIdNameFirst(license_info) ==
    IF "license" \in DOMAIN license_info
    THEN LET license_obj == license_info["license"]
         IN  IF Get(license_obj, "name", <<>>) # <<>>
             THEN license_obj["name"]
             ELSE Get(license_obj, "id", <<>>)
    ELSE IF "expression" \in DOMAIN license_info
    THEN license_info["expression"]
    ELSE <<>>

\* the identifier one license entry resolves to; <<>> when it resolves to none
LicenseId(license_info) ==
    IF "license" \in DOMAIN license_info
    THEN LET license_obj == license_info["license"]
         IN  IF Get(license_obj, "id", <<>>) # <<>>
             THEN license_obj["id"]
             ELSE Get(license_obj, "name", <<>>)
    ELSE IF "expression" \in DOMAIN license_info
    THEN license_info["expression"]
    ELSE <<>>

RECURSIVE LicenseIds(_)
LicenseIds(licenses) ==
    IF licenses = <<>> THEN <<>>
    ELSE (IF LicenseId(licenses[1]) # <<>> THEN <<LicenseId(licenses[1])>> ELSE <<>>)
         \o LicenseIds(Tail(licenses))

LicenseString(component) ==
    LET license_ids == LicenseIds(Get(component, "licenses", <<>>))
    IN  IF license_ids # <<>> THEN JoinAnd(license_ids) ELSE NOASSERTION

ComponentName(component) == Get(component, "name", DefaultComponentName)

ComponentVersion(component) == Get(component, "version", DefaultComponentVersion)

\* f"{component_name}@{component_version}"
FullPackageName(component_name, component_version) ==
    Format(component_name) \o <<"@">> \o Format(component_version)

Package(component, spdx_id) ==
    [SPDXID |-> spdx_id,
     name |-> ComponentName(component),
     versionInfo |-> ComponentVersion(component),
     supplier |-> <<"Organization: ">> \o Format(SupplierName(component)),
     downloadLocation |-> DownloadLocation(component),
     licenseConcluded |-> LicenseString(component),
     licenseDeclared |-> LicenseString(component)]

\* a plausible slip: a component whose name@version was already mapped is skipped
RECURSIVE MapComponentsSkipSeen(_, _, _, _)
MapComponentsSkipSeen(components, packages, used_ids, name_to_spdxid) ==
    IF components = <<>>
    THEN [packages |-> packages, used |-> used_ids, name_to_spdxid |-> name_to_spdxid]
    ELSE LET component == components[1]
             key == FullPackageName(ComponentName(component), ComponentVersion(component))
             g == generate_unique_spdx_id(ComponentName(component),
                                          ComponentVersion(component), used_ids)
         IN  IF key \in DOMAIN name_to_spdxid
             THEN MapComponentsSkipSeen(Tail(components), packages, used_ids,
                                        name_to_spdxid)
             ELSE MapComponentsSkipSeen(Tail(components),
                                        Append(packages, Package(component, g.id)),
                                        g.used, Put(name_to_spdxid, key, g.id))

\* the loop "for component in components"
RECURSIVE MapComponents(_, _, _, _)
MapComponents(components, packages, used_ids, name_to_spdxid) ==
    IF components = <<>>
    THEN [packages |-> packages, used |-> used_ids, name_to_spdxid |-> name_to_spdxid]
    ELSE LET component == components[1]
             key == FullPackageName(ComponentName(component), ComponentVersion(component))
             g == generate_unique_spdx_id(ComponentName(component),
                                          ComponentVersion(component), used_ids)
         IN  MapComponents(Tail(components),
                           Append(packages, Package(component, g.id)),
                           g.used, Put(name_to_spdxid, key, g.id))

(***************************************************************************)
(* Dependency metadata (Input B) as get_dependency_metadata assembles it.  *)
(* An edge is [name, is_direct, parent]; parent <<>> is the empty string.  *)
(***************************************************************************)
DirectDependencies(edges) == {edges[i].name : i \in {j \in 1..Len(edges) : edges[j].is_direct}}

RECURSIVE DepsOfParent(_, _)
DepsOfParent(edges, parent_name) ==
    IF edges = <<>> THEN <<>>
    ELSE (IF edges[1].parent = parent_name THEN <<edges[1].name>> ELSE <<>>)
         \o DepsOfParent(Tail(edges), parent_name)

\* the keys of package_name_to_deps in insertion order
RECURSIVE ParentsInOrder(_, _)
ParentsInOrder(edges, seen) ==
    IF edges = <<>> THEN <<>>
    ELSE IF edges[1].parent = <<>> \/ edges[1].parent \in seen
         THEN ParentsInOrder(Tail(edges), seen)
         ELSE <<edges[1].parent>> \o ParentsInOrder(Tail(edges), seen \cup {edges[1].parent})

get_dependency_metadata(edges) ==
    LET parents == ParentsInOrder(edges, {})
    IN  [dependencies |-> edges,
         direct_dependencies |-> DirectDependencies(edges),
         package_name_to_deps |->
             [i \in 1..Len(parents) |->
                 [parent |-> parents[i], deps |-> DepsOfParent(edges, parents[i])]]]

(***************************************************************************)
(* Relationship derivation.                                                *)
(***************************************************************************)
HasAt(full_name) == \E i \in 1..Len(full_name) : full_name[i] = "@"

\* f"{name_part}@{version}" of a full name that contains '@'
ComponentKey(full_name) ==
    LET parts == SplitChar(full_name, "@", <<>>)
    IN  StripScheme(parts[1]) \o <<"@">> \o parts[2]

\* a plausible slip: the lookup table is not consulted before an ID is recorded
ApiNameToSpdxidUnchecked(deps_list, name_to_spdxid) ==
    LET names == {deps_list[i].name : i \in 1..Len(deps_list)}
    IN  [n \in {m \in names : HasAt(m)} |->
            IF ComponentKey(n) \in DOMAIN name_to_spdxid
            THEN name_to_spdxid[ComponentKey(n)]
            ELSE <<"SPDXRef-Package-">> \o Sanitize(ComponentKey(n))]

\* api_name_to_spdxid after the loop over deps_list
ApiNameToSpdxid(deps_list, name_to_spdxid) ==
    LET names == {deps_list[i].name : i \in 1..Len(deps_list)}
        resolvable == {n \in names : HasAt(n) /\ ComponentKey(n) \in DOMAIN name_to_spdxid}
    IN  [n \in resolvable |-> name_to_spdxid[ComponentKey(n)]]

Relationship(source, target, kind) ==
    [spdxElementId |-> source, relatedSpdxElement |-> target, relationshipType |-> kind]

\* a plausible slip: the inverse relationship is forgotten
DependsOnOnly(parent_spdxid, dep_spdxid) ==
    <<Relationship(parent_spdxid, dep_spdxid, "DEPENDS_ON")>>

\* the two appends made for one connected pair
DependencyPair(parent_spdxid, dep_spdxid) ==
    <<Relationship(parent_spdxid, dep_spdxid, "DEPENDS_ON"),
      Relationship(dep_spdxid, parent_spdxid, "DEPENDENCY_OF")>>

\* the loop "for dep_name in direct_deps", iterating the set in the given order
RECURSIVE DirectRelationships(_, _, _)
DirectRelationships(order, api_name_to_spdxid, application_spdx_id) ==
    IF order = <<>> THEN <<>>
    ELSE (IF order[1] \in DOMAIN api_name_to_spdxid
          THEN DependencyPair(application_spdx_id, api_name_to_spdxid[order[1]])
          ELSE <<>>)
         \o DirectRelationships(Tail(order), api_name_to_spdxid, application_spdx_id)

\* the (parent_name, dep_name) pairs in the order the nested loops visit them
RECURSIVE ParentDepPairs(_)
ParentDepPairs(package_to_deps) ==
    IF package_to_deps = <<>> THEN <<>>
    ELSE [i \in 1..Len(package_to_deps[1].deps) |->
             [parent |-> package_to_deps[1].parent, dep |-> package_to_deps[1].deps[i]]]
         \o ParentDepPairs(Tail(package_to_deps))

\* f"{parent_spdxid}:{dep_spdxid}"
RelKey(parent_spdxid, dep_spdxid) == parent_spdxid \o <<":">> \o dep_spdxid

\* the nested loops over package_to_deps
RECURSIVE TransitiveRelationships(_, _, _)
TransitiveRelationships(pairs, api_name_to_spdxid, already_processed) ==
    IF pairs = <<>> THEN <<>>
    ELSE IF pairs[1].parent \in DOMAIN api_name_to_spdxid
            /\ pairs[1].dep \in DOMAIN api_name_to_spdxid
         THEN LET parent_spdxid == api_name_to_spdxid[pairs[1].parent]
                  dep_spdxid == api_name_to_spdxid[pairs[1].dep]
                  rel_key == RelKey(parent_spdxid, dep_spdxid)
              IN  IF rel_key \in already_processed
                  THEN TransitiveRelationships(Tail(pairs), api_name_to_spdxid,
                                               already_processed)
                  ELSE DependencyPair(parent_spdxid, dep_spdxid)
                       \o TransitiveRelationships(Tail(pairs), api_name_to_spdxid,
                                                  already_processed \cup {rel_key})
         ELSE TransitiveRelationships(Tail(pairs), api_name_to_spdxid, already_processed)

(***************************************************************************)
(* convert_cyclonedx_to_spdx.                                              *)
(***************************************************************************)
\* components of the CycloneDX document, with the metadata.component fallback
Components(cyclonedx_data) ==
    LET components == Get(cyclonedx_data, "components", <<>>)
    IN  IF components = <<>> /\ "metadata" \in DOMAIN cyclonedx_data
           /\ "component" \in DOMAIN cyclonedx_data["metadata"]
        THEN Get(cyclonedx_data["metadata"]["component"], "components", <<>>)
        ELSE components

\* a plausible slip: the set of issued IDs outlives the call
LeakedUsedIds(previous) == previous

\* used_spdx_ids = set(): whatever an earlier call issued is not consulted
NewUsedIds(previous) == {}

\* a plausible slip: the application ID is not entered into the set
RegisterNothing(used_ids, application_spdx_id) == used_ids

\* used_spdx_ids.add(application_spdx_id): the only ID entered before the
\* component loop
RegisterApplicationId(used_ids, application_spdx_id) == used_ids \cup {application_spdx_id}

MainAppPackage(application_spdx_id, namespace, organization) ==
    [SPDXID |-> application_spdx_id,
     name |-> <<namespace, " Application">>,
     versionInfo |-> ApplicationVersion,
     supplier |-> <<"Organization: ", organization>>,
     downloadLocation |-> NOASSERTION,
     licenseConcluded |-> NOASSERTION,
     licenseDeclared |-> NOASSERTION]

\* a payload handed over as text rather than as a parsed object
IsStr(cyclonedx_sbom) == DOMAIN cyclonedx_sbom = {"text"}

\* the texts json.loads accepts, with the object each one denotes; every other
\* text raises JSONDecodeError
JsonObjects ==
    {[text |-> <<"{", "}">>, value |-> EmptyDict],
     [text |-> <<"{", "\"components\"", ":", "[", "]", "}">>,
      value |-> [components |-> <<>>]],
     [text |-> <<"{", "\"components\"", ":", "[", "{", "}", "]", "}">>,
      value |-> [components |-> <<EmptyDict>>]]}

\* json.loads: ok is FALSE where the library raises JSONDecodeError
json_loads(text) ==
    IF \E o \in JsonObjects : o.text = text
    THEN [ok |-> TRUE, value |-> (CHOOSE o \in JsonObjects : o.text = text).value]
    ELSE [ok |-> FALSE, value |-> EmptyDict]

\* the document as first laid out, before any package is added
InitialDocument(organization, person_email, document_uuid, application_spdx_id, current_time) ==
    [SPDXID |-> DocumentId,
     spdxVersion |-> "SPDX-2.3",
     creationInfo |->
         [created |-> current_time,
          creators |-> <<<<"Organization: ", organization>>,
                         <<"Tool: ", "Endor Labs CS tool">>,
                         <<"Person: ", person_email>>>>],
     dataLicense |-> "CC0-1.0",
     documentNamespace |-> <<"https://api.endorlabs.com/spdx/documents/">>
                           \o document_uuid,
     documentDescribes |-> <<application_spdx_id>>,
     packages |-> <<>>]

\* a plausible slip: the document built so far is handed back
ParseFailurePartial(spdx_sbom) == spdx_sbom

\* except json.JSONDecodeError: return None
ParseFailure(spdx_sbom) == None

\* re.sub on a name that is None raises TypeError inside generate_unique_spdx_id
RaisesTypeError(components) ==
    \E i \in 1..Len(components) : ComponentName(components[i]) = Null

\* the body of the conversion once the payload is an object
ConvertData(cyclonedx_data, spdx_sbom, namespace, organization, application_spdx_id, dependency_metadata, order, previous_used) ==
    LET mapped == MapComponents(Components(cyclonedx_data),
                                <<MainAppPackage(application_spdx_id, namespace,
                                                 organization)>>,
                                RegisterApplicationId(NewUsedIds(previous_used),
                                                      application_spdx_id),
                                EmptyDict)
        api_name_to_spdxid == ApiNameToSpdxid(dependency_metadata.dependencies,
                                              mapped.name_to_spdxid)
        relationships ==
            <<Relationship(DocumentId, application_spdx_id, "DESCRIBES")>>
            \o DirectRelationships(order, api_name_to_spdxid, application_spdx_id)
            \o TransitiveRelationships(
                   ParentDepPairs(dependency_metadata.package_name_to_deps),
                   api_name_to_spdxid, {})
    IN  IF RaisesTypeError(Components(cyclonedx_data))
        THEN [doc |-> None, used |-> previous_used, error |-> "TypeError"]
        ELSE [doc |-> Put(Put(spdx_sbom, "packages", mapped.packages),
                          "relationships", relationships),
              used |-> mapped.used, error |-> ""]

\* returns the SPDX document (None for an unparsable text), the used-ID set at
\* the end of the call and the exception raised, if any; order is the order in
\* which the set direct_deps is iterated
convert_cyclonedx_to_spdx(cyclonedx_sbom, namespace, project_uuid, organization, person_email, dependency_metadata, document_uuid, current_time, order, previous_used) ==
    LET application_spdx_id == ApplicationId(project_uuid, document_uuid)
        spdx_sbom == InitialDocument(organization, person_email, document_uuid,
                                     application_spdx_id, current_time)
    IN  IF IsStr(cyclonedx_sbom)
        THEN IF json_loads(cyclonedx_sbom.text).ok
             THEN ConvertData(json_loads(cyclonedx_sbom.text).value, spdx_sbom,
                              namespace, organization, application_spdx_id,
                              dependency_metadata, order, previous_used)
             ELSE [doc |-> ParseFailure(spdx_sbom), used |-> previous_used,
                   error |-> ""]
        ELSE ConvertData(cyclonedx_sbom, spdx_sbom, namespace, organization,
                         application_spdx_id, dependency_metadata, order,
                         previous_used)

(***************************************************************************)
(* remove_test_dependencies.                                               *)
(***************************************************************************)
\* a plausible slip: only the bare name is looked up
IsTestDependencyNameOnly(package_name, package_version, test_dependencies) ==
    package_name \in test_dependencies

is_test_dependency(package_name, package_version, test_dependencies) ==
    \/ package_name \in test_dependencies
    \/ FullPackageName(package_name, package_version) \in test_dependencies

\* a plausible slip: the scan for matching packages stops at the first match
PackagesToRemoveFirstOnly(packages, test_dependencies) ==
    LET matching == {j \in 1..Len(packages) :
                        is_test_dependency(Get(packages[j], "name", <<>>),
                                           Get(packages[j], "versionInfo", <<>>),
                                           test_dependencies)}
    IN  IF matching = {} THEN {}
        ELSE {packages[CHOOSE j \in matching : \A h \in matching : j <= h].SPDXID}

PackagesToRemove(packages, test_dependencies) ==
    {packages[i].SPDXID : i \in
        {j \in 1..Len(packages) :
            is_test_dependency(Get(packages[j], "name", <<>>),
                               Get(packages[j], "versionInfo", <<>>),
                               test_dependencies)}}

\* a plausible slip: the scan stops at the first package to remove
RECURSIVE KeepPackagesUntilRemoved(_, _)
KeepPackagesUntilRemoved(packages, packages_to_remove) ==
    IF packages = <<>> THEN <<>>
    ELSE IF packages[1].SPDXID \in packages_to_remove THEN <<>>
    ELSE <<packages[1]>> \o KeepPackagesUntilRemoved(Tail(packages), packages_to_remove)

RECURSIVE KeepPackages(_, _)
KeepPackages(packages, packages_to_remove) ==
    IF packages = <<>> THEN <<>>
    ELSE (IF packages[1].SPDXID \notin packages_to_remove THEN <<packages[1]>> ELSE <<>>)
         \o KeepPackages(Tail(packages), packages_to_remove)

\* first pass: relationships that involve removed packages are dropped
RECURSIVE DropRemoved(_, _)
DropRemoved(relationships, packages_to_remove) ==
    IF relationships = <<>> THEN <<>>
    ELSE (IF relationships[1].spdxElementId \notin packages_to_remove
             /\ relationships[1].relatedSpdxElement \notin packages_to_remove
          THEN <<relationships[1]>> ELSE <<>>)
         \o DropRemoved(Tail(relationships), packages_to_remove)

\* a plausible slip: the second pass is left out
KeepAll(relationships, existing_package_ids) == relationships

\* a plausible slip: the second pass looks at the source endpoint only
RECURSIVE KeepExistingSourceOnly(_, _)
KeepExistingSourceOnly(relationships, existing_package_ids) ==
    IF relationships = <<>> THEN <<>>
    ELSE (IF relationships[1].spdxElementId \in existing_package_ids
          THEN <<relationships[1]>> ELSE <<>>)
         \o KeepExistingSourceOnly(Tail(relationships), existing_package_ids)

\* a plausible slip: the document node does not count as existing
RECURSIVE KeepExistingNoDocument(_, _)
KeepExistingNoDocument(relationships, existing_package_ids) ==
    IF relationships = <<>> THEN <<>>
    ELSE (IF relationships[1].spdxElementId \in existing_package_ids \ {DocumentId}
             /\ relationships[1].relatedSpdxElement \in
                    existing_package_ids \ {DocumentId}
          THEN <<relationships[1]>> ELSE <<>>)
         \o KeepExistingNoDocument(Tail(relationships), existing_package_ids)

\* second pass: relationships that reference non-existent packages are dropped
RECURSIVE KeepExisting(_, _)
KeepExisting(relationships, existing_package_ids) ==
    IF relationships = <<>> THEN <<>>
    ELSE (IF relationships[1].spdxElementId \in existing_package_ids
             /\ relationships[1].relatedSpdxElement \in existing_package_ids
          THEN <<relationships[1]>> ELSE <<>>)
         \o KeepExisting(Tail(relationships), existing_package_ids)

\* creator.startswith("Organization:") or creator.startswith("Person:")
RECURSIVE OtherCreators(_)
OtherCreators(creators) ==
    IF creators = <<>> THEN <<>>
    ELSE (IF creators[1][1] \in {"Organization: ", "Person: "} THEN <<>>
          ELSE <<creators[1]>>)
         \o OtherCreators(Tail(creators))

UpdatedCreators(creators, organization_name, person_email) ==
    IF organization_name # <<>> \/ person_email # <<>>
    THEN OtherCreators(creators)
         \o (IF organization_name # <<>>
             THEN <<<<"Organization: ">> \o organization_name>> ELSE <<>>)
         \o (IF person_email # <<>> THEN <<<<"Person: ">> \o person_email>> ELSE <<>>)
    ELSE creators

\* a plausible slip: a shallow copy, whose nested objects are those of the input
ShallowCopy(spdx_sbom) == [value |-> spdx_sbom, shares |-> "nested"]

\* json.loads(json.dumps(spdx_sbom)): the document is made of JSON values
\* only, so the round trip yields an equal document; it shares no object with
\* the input
JsonCopy(spdx_sbom) == [value |-> spdx_sbom, shares |-> "nothing"]

\* the body of remove_test_dependencies after the early return
CleanedSbom(spdx_sbom, test_dependencies, organization_name, person_email, current_time) ==
    LET packages_to_remove == PackagesToRemove(Get(spdx_sbom, "packages", <<>>),
                                               test_dependencies)
        packages == KeepPackages(Get(spdx_sbom, "packages", <<>>), packages_to_remove)
        existing_package_ids == Range([i \in 1..Len(packages) |-> packages[i].SPDXID])
                                \cup {DocumentId}
        with_packages == Put(spdx_sbom, "packages", packages)
        with_relationships ==
            IF "relationships" \in DOMAIN spdx_sbom
            THEN Put(with_packages, "relationships",
                     KeepExisting(DropRemoved(spdx_sbom["relationships"],
                                              packages_to_remove),
                                  existing_package_ids))
            ELSE with_packages
    IN  Put(with_relationships, "creationInfo",
            [created |-> current_time,
             creators |-> UpdatedCreators(spdx_sbom["creationInfo"].creators,
                                          organization_name, person_email)])

\* a plausible slip: the early return for an empty exclusion set is missing
RemoveWithoutEarlyReturn(spdx_sbom, test_dependencies, organization_name, person_email, current_time) ==
    CleanedSbom(spdx_sbom, test_dependencies, organization_name, person_email,
                current_time)

remove_test_dependencies(spdx_sbom, test_dependencies, organization_name, person_email, current_time) ==
    IF test_dependencies = {}
    THEN spdx_sbom
    ELSE CleanedSbom(JsonCopy(spdx_sbom).value, test_dependencies, organization_name,
                     person_email, current_time)

\* the caller's document after the call: the early return writes nothing; the
\* other path assigns the keys packages and relationships of cleaned_sbom and
\* writes created and creators into its creationInfo object, which reaches the
\* input as far as cleaned_sbom shares objects with it
InputAfterCall(spdx_sbom, test_dependencies, cleaned_sbom) ==
    IF test_dependencies = {} \/ JsonCopy(spdx_sbom).shares = "nothing"
    THEN spdx_sbom
    ELSE IF JsonCopy(spdx_sbom).shares = "nested"
    THEN Put(spdx_sbom, "creationInfo", cleaned_sbom["creationInfo"])
    ELSE cleaned_sbom

(***************************************************************************)
(* State.                                                                  *)
(***************************************************************************)
VARIABLES
    cyclonedx_data,     \* create_spdx_sbom.main: the parsed CycloneDX document
    dependency_edges,   \* the dependency objects the metadata is assembled from
    used_spdx_ids,      \* the used-ID set as the last conversion left it
    converted,          \* the documents returned by the conversions so far
    conversion_error,   \* the exception a conversion ended with, "" if none
    direct_deps_order,  \* the order in which this process iterates direct_deps
    spdx_data,          \* remove_test_dependencies.main: the SPDX document
    all_test_deps,      \* the exclusion set of the last pruning call
    cleaned_spdx,       \* the document the last pruning call returned
    prune_calls,        \* number of pruning calls made
    second_test_deps,   \* the exclusion set of a pruning call on cleaned_spdx
    recleaned_spdx,     \* the document that call returned
    union_cleaned,      \* spdx_data pruned with both exclusion sets at once
    id_name,            \* generate_unique_spdx_id: component_name of the calls
    id_version,         \* component_version of the calls
    issued_ids          \* the identifiers the calls returned, in order

vars == <<cyclonedx_data, dependency_edges, used_spdx_ids, converted, conversion_error,
          direct_deps_order, spdx_data, all_test_deps, cleaned_spdx, prune_calls,
          second_test_deps, recleaned_spdx, union_cleaned, id_name, id_version,
          issued_ids>>

\* the variables of the repeated pruning calls and of the identifier calls
compose_vars == <<second_test_deps, recleaned_spdx, union_cleaned>>

id_vars == <<id_name, id_version, issued_ids>>

\* no repeated pruning call and no identifier call is under way
NoComposeNoIds ==
    /\ second_test_deps = {}
    /\ recleaned_spdx = EmptyDict
    /\ union_cleaned = EmptyDict
    /\ id_name = <<>>
    /\ id_version = <<>>
    /\ issued_ids = <<>>


(***************************************************************************)
(* Inputs.                                                                 *)
(***************************************************************************)
Namespace == "ns"
ProjectUuid == "proj"
Organization == "Acme"
PersonEmail == "dev@acme"

Times == {1, 2}

\* uuid.uuid4() of the n-th call: a value no other call draws
FreshUuid(n) == <<"uuid-">> \o Str(n)

ComponentNames == {<<"a", " ", "b">>, <<"a", "/", "b">>}

ComponentVersions == {<<>>, <<"1">>, <<"1", ".", "0">>}

\* components with and without the optional keys name and version
ComponentPool ==
    {[name |-> n, version |-> v] : n \in ComponentNames, v \in ComponentVersions}
    \cup {[name |-> <<"a", " ", "b">>], [version |-> <<"1", ".", "0">>], EmptyDict}

CompA1 == [name |-> <<"a">>, version |-> <<"1">>]
CompB1 == [name |-> <<"b">>, version |-> <<"1">>]

\* CycloneDX documents the dependency edges are resolved against
EdgeDocuments ==
    {[components |-> <<>>],
     [components |-> <<CompA1, CompB1>>],
     [metadata |-> [component |-> [components |-> <<CompA1>>]]]}

\* "p://a@1", "n://a@1" and "p://b@1"
EdgeNames ==
    {<<"p", ":", "/", "/", "a", "@", "1">>,
     <<"n", ":", "/", "/", "a", "@", "1">>,
     <<"p", ":", "/", "/", "b", "@", "1">>}

EdgeParents ==
    {<<>>, <<"p", ":", "/", "/", "a", "@", "1">>, <<"n", ":", "/", "/", "a", "@", "1">>}

\* the resolved version the API reports next to a name: the text after the
\* last "@" of the name
RECURSIVE ResolvedVersion(_)
ResolvedVersion(full_name) ==
    IF ~HasAt(full_name) THEN <<>>
    ELSE IF HasAt(Tail(full_name)) \/ Head(full_name) # "@"
         THEN ResolvedVersion(Tail(full_name))
         ELSE Tail(full_name)

Edge(name, is_direct, parent) ==
    [name |-> name, version |-> ResolvedVersion(name), is_direct |-> is_direct,
     parent |-> parent]

\* the last edge has a name without a version
EdgePool ==
    {Edge(n, d, p) : n \in EdgeNames, d \in BOOLEAN, p \in EdgeParents}
    \cup {Edge(<<"a">>, TRUE, <<>>)}

InitConvert ==
    /\ \/ /\ cyclonedx_data \in
                {[components |-> cs] : cs \in SeqsUpTo(ComponentPool, MaxComponents)}
          /\ dependency_edges = <<>>
       \/ /\ cyclonedx_data \in EdgeDocuments
          /\ dependency_edges \in SeqsUpTo(EdgePool, MaxEdges)
    /\ direct_deps_order \in Orders(DirectDependencies(dependency_edges))
    /\ used_spdx_ids = {}
    /\ converted = <<>>
    /\ conversion_error = ""
    /\ NoComposeNoIds
    /\ spdx_data = None
    /\ all_test_deps = {}
    /\ cleaned_spdx = None
    /\ prune_calls = 0

(***************************************************************************)
(* One call of convert_cyclonedx_to_spdx on the fetched inputs.  The clock *)
(* advances from call to call.                                             *)
(***************************************************************************)
Convert ==
    /\ Len(converted) < MaxRuns
    /\ conversion_error = ""
    /\ LET result == convert_cyclonedx_to_spdx(
                         cyclonedx_data, Namespace, ProjectUuid, Organization,
                         PersonEmail, get_dependency_metadata(dependency_edges),
                         FreshUuid(Len(converted) + 1), Len(converted) + 1,
                         direct_deps_order, used_spdx_ids)
       IN  IF result.error # ""
           THEN /\ conversion_error' = result.error
                /\ UNCHANGED <<converted, used_spdx_ids>>
           ELSE /\ converted' = Append(converted, result.doc)
                /\ used_spdx_ids' = result.used
                /\ UNCHANGED conversion_error
    /\ UNCHANGED <<cyclonedx_data, dependency_edges, direct_deps_order, spdx_data,
                   all_test_deps, cleaned_spdx, prune_calls, compose_vars, id_vars>>

NextConvert == Convert

SpecConvert == InitConvert /\ [][NextConvert]_vars

(***************************************************************************)
(* Inputs of the pruner: SPDX documents as the export service may deliver  *)
(* them, well formed or not (dangling relationships, a repeated SPDXID, no *)
(* relationships key).  The described application package is present.      *)
(***************************************************************************)
PruneAppId == ApplicationId(ProjectUuid, FreshUuid(1))

PruneAppPackage == MainAppPackage(PruneAppId, Namespace, Organization)

IdA1 == BaseId(<<"a">>, <<"1">>)
IdB1 == BaseId(<<"b">>, <<"1">>)
IdGhost == BaseId(<<"g">>, <<"1">>)

CompA2 == [name |-> <<"a">>, version |-> <<"2">>]
CompB2 == [name |-> <<"b">>, version |-> <<"2">>]

PrunePackagePool ==
    {Package(CompA1, IdA1),
     Package(CompA2, BaseId(<<"a">>, <<"2">>)),
     Package(CompB1, IdB1),
     Package(CompB2, IdA1)}

PruneRelationshipPool ==
    {Relationship(DocumentId, PruneAppId, "DESCRIBES"),
     Relationship(PruneAppId, IdA1, "DEPENDS_ON"),
     Relationship(IdA1, PruneAppId, "DEPENDENCY_OF"),
     Relationship(IdA1, IdB1, "DEPENDS_ON"),
     Relationship(PruneAppId, IdGhost, "DEPENDS_ON")}

PruneDocumentBase(packages) ==
    [SPDXID |-> DocumentId,
     spdxVersion |-> "SPDX-2.3",
     creationInfo |->
         [created |-> 1,
          creators |-> <<<<"Organization: ", Organization>>,
                         <<"Tool: ", "Endor Labs CS tool">>,
                         <<"Person: ", PersonEmail>>>>],
     dataLicense |-> "CC0-1.0",
     documentNamespace |-> <<"https://api.endorlabs.com/spdx/documents/">>
                           \o FreshUuid(1),
     documentDescribes |-> <<PruneAppId>>,
     packages |-> <<PruneAppPackage>> \o packages]

PruneDocuments ==
    LET bases == {PruneDocumentBase(ps) :
                     ps \in SeqsUpTo(PrunePackagePool, MaxPackages)}
    IN  bases \cup {Put(d, "relationships", rs) :
                       d \in bases,
                       rs \in SeqsUpTo(PruneRelationshipPool, MaxRelationships)}

\* "a@1", "b" and the name of the application package
ExclusionKeys == {<<"a", "@", "1">>, <<"b">>, <<Namespace, " Application">>}

\* organization_name and person_email as main() passes them; <<>> is None
CreatorArguments ==
    {<<<<>>, <<>>>>, <<<<"Initech">>, <<>>>>, <<<<"Initech">>, <<"qa@initech">>>>}

InitPrune ==
    /\ spdx_data \in PruneDocuments
    /\ all_test_deps = {}
    /\ cleaned_spdx = None
    /\ prune_calls = 0
    /\ cyclonedx_data = None
    /\ dependency_edges = <<>>
    /\ used_spdx_ids = {}
    /\ converted = <<>>
    /\ conversion_error = ""
    /\ NoComposeNoIds
    /\ direct_deps_order = <<>>

(***************************************************************************)
(* One call of remove_test_dependencies on the downloaded document.        *)
(***************************************************************************)
Prune(test_dependencies, organization_name, person_email, current_time) ==
    /\ prune_calls = 0
    /\ all_test_deps' = test_dependencies
    /\ cleaned_spdx' = remove_test_dependencies(spdx_data, test_dependencies,
                                                organization_name, person_email,
                                                current_time)
    /\ spdx_data' = InputAfterCall(spdx_data, test_dependencies, cleaned_spdx')
    /\ prune_calls' = prune_calls + 1
    /\ UNCHANGED <<cyclonedx_data, dependency_edges, used_spdx_ids,
                   converted, conversion_error, direct_deps_order, compose_vars,
                   id_vars>>

NextPrune ==
    \E test_dependencies \in SUBSET ExclusionKeys, creators \in CreatorArguments,
       current_time \in Times :
        Prune(test_dependencies, creators[1], creators[2], current_time)

SpecPrune == InitPrune /\ [][NextPrune]_vars

(***************************************************************************)
(* Properties of the converter, checked under SpecConvert.                 *)
(***************************************************************************)
PackageIds(doc) == [i \in 1..Len(doc.packages) |-> doc.packages[i].SPDXID]

ComponentPackageIds(doc) == Tail(PackageIds(doc))

Relationships(doc) == Get(doc, "relationships", <<>>)

PairwiseDistinct(seq) == \A i, j \in 1..Len(seq) : i # j => seq[i] # seq[j]

InputComponents == Components(cyclonedx_data)

InputBaseId(i) ==
    BaseId(ComponentName(InputComponents[i]), ComponentVersion(InputComponents[i]))

EndpointsExist(doc) ==
    \A i \in 1..Len(Relationships(doc)) :
        /\ Relationships(doc)[i].spdxElementId \in Range(PackageIds(doc)) \cup {DocumentId}
        /\ Relationships(doc)[i].relatedSpdxElement \in
               Range(PackageIds(doc)) \cup {DocumentId}

HasRelationship(doc, source, target, kind) ==
    \E i \in 1..Len(Relationships(doc)) :
        Relationships(doc)[i] = Relationship(source, target, kind)

\* C1: the SPDXIDs of the packages of every converted document (the
\* application package and one package per component) are pairwise distinct.
C1_UniquePackageIds ==
    \A k \in 1..Len(converted) : PairwiseDistinct(PackageIds(converted[k]))

\* two components with different names sanitize to the same base ID
C1_Witness ==
    /\ Len(converted) >= 1
    /\ \E i, j \in 1..Len(InputComponents) :
          /\ i < j
          /\ InputBaseId(i) = InputBaseId(j)
          /\ ComponentName(InputComponents[i]) # ComponentName(InputComponents[j])

\* C2: in every converted document both endpoints of every relationship are
\* SPDXRef-DOCUMENT or the SPDXID of a package of the document.
C2_ConvertedEndpointsExist ==
    \A k \in 1..Len(converted) : EndpointsExist(converted[k])

\* an edge was resolved to a relationship while another edge names a package
\* that is not among the components
C2_Witness ==
    /\ Len(converted) >= 1
    /\ \E i \in 1..Len(Relationships(converted[1])) :
          Relationships(converted[1])[i].relationshipType = "DEPENDS_ON"
    /\ \E i \in 1..Len(dependency_edges) :
          /\ HasAt(dependency_edges[i].name)
          /\ ComponentKey(dependency_edges[i].name) \notin
                 {FullPackageName(ComponentName(InputComponents[j]),
                                  ComponentVersion(InputComponents[j])) :
                      j \in 1..Len(InputComponents)}

\* C7: in every converted document DEPENDS_ON (a,b) is present if and only if
\* DEPENDENCY_OF (b,a) is present.
C7_PairSymmetry ==
    \A k \in 1..Len(converted) :
        \A i \in 1..Len(Relationships(converted[k])) :
            LET r == Relationships(converted[k])[i]
            IN  /\ r.relationshipType = "DEPENDS_ON" =>
                       HasRelationship(converted[k], r.relatedSpdxElement,
                                       r.spdxElementId, "DEPENDENCY_OF")
                /\ r.relationshipType = "DEPENDENCY_OF" =>
                       HasRelationship(converted[k], r.relatedSpdxElement,
                                       r.spdxElementId, "DEPENDS_ON")

\* a direct and a transitive pair were emitted
C7_Witness ==
    /\ Len(converted) >= 1
    /\ \E i, j \in 1..Len(Relationships(converted[1])) :
          LET r == Relationships(converted[1])[i]
              q == Relationships(converted[1])[j]
          IN  /\ r.relationshipType = "DEPENDS_ON"
              /\ q.relationshipType = "DEPENDS_ON"
              /\ r.spdxElementId = PackageIds(converted[1])[1]
              /\ q.spdxElementId # PackageIds(converted[1])[1]

\* C8: the relationship list of a converted document never contains the same
\* (source, target, kind) triple twice.
C8_NoDuplicateRelationships ==
    \A k \in 1..Len(converted) : PairwiseDistinct(Relationships(converted[k]))

\* C9: two conversions of the same component list in one process issue the
\* same sequence of component package SPDXIDs.
C9_SameIdsEveryRun ==
    \A k, l \in 1..Len(converted) :
        ComponentPackageIds(converted[k]) = ComponentPackageIds(converted[l])

\* a second conversion of a list with colliding components has returned
C9_Witness ==
    /\ Len(converted) >= 2
    /\ \E i, j \in 1..Len(InputComponents) : i < j /\ InputBaseId(i) = InputBaseId(j)

\* C10: the package list is the application package followed by one package
\* per component, in input order.
C10_OnePackagePerComponent ==
    \A k \in 1..Len(converted) :
        /\ Len(converted[k].packages) = Len(InputComponents) + 1
        /\ converted[k].packages[1].SPDXID = converted[k].documentDescribes[1]
        /\ converted[k].packages[1].name = <<Namespace, " Application">>
        /\ \A i \in 1..Len(InputComponents) :
              /\ converted[k].packages[i + 1].name = ComponentName(InputComponents[i])
              /\ converted[k].packages[i + 1].versionInfo =
                     ComponentVersion(InputComponents[i])

\* several components share the same name and version
C10_Witness ==
    /\ Len(converted) >= 1
    /\ \E i, j \in 1..Len(InputComponents) :
          /\ i < j
          /\ InputComponents[i] = InputComponents[j]
          /\ "name" \in DOMAIN InputComponents[i]

(***************************************************************************)
(* Properties of the pruner, checked under SpecPrune.                      *)
(***************************************************************************)
Matches(package, exclusion) ==
    \/ package.name \in exclusion
    \/ package.name \o <<"@">> \o package.versionInfo \in exclusion

MatchedIds(doc, exclusion) ==
    {doc.packages[i].SPDXID : i \in {j \in 1..Len(doc.packages) :
                                        Matches(doc.packages[j], exclusion)}}

Dangling(doc, i) ==
    \/ Relationships(doc)[i].spdxElementId \notin Range(PackageIds(doc)) \cup {DocumentId}
    \/ Relationships(doc)[i].relatedSpdxElement \notin
           Range(PackageIds(doc)) \cup {DocumentId}

\* C3: after pruning with a non-empty exclusion set both endpoints of every
\* relationship are SPDXRef-DOCUMENT or the SPDXID of a surviving package.
C3_PrunedEndpointsExist ==
    (prune_calls > 0 /\ all_test_deps # {}) => EndpointsExist(cleaned_spdx)

\* the input had a dangling relationship none of whose endpoints was removed,
\* and a package was removed
C3_Witness ==
    /\ prune_calls > 0
    /\ all_test_deps # {}
    /\ MatchedIds(spdx_data, all_test_deps) # {}
    /\ Relationships(cleaned_spdx) # <<>>
    /\ \E i \in 1..Len(Relationships(spdx_data)) :
          /\ Dangling(spdx_data, i)
          /\ Relationships(spdx_data)[i].spdxElementId \notin
                 MatchedIds(spdx_data, all_test_deps)
          /\ Relationships(spdx_data)[i].relatedSpdxElement \notin
                 MatchedIds(spdx_data, all_test_deps)

\* C4: every ID listed in documentDescribes of the pruned document is the
\* SPDXID of a package of the pruned package list.
C4_DescribedSetConsistent ==
    prune_calls > 0 =>
        Range(cleaned_spdx.documentDescribes) \subseteq Range(PackageIds(cleaned_spdx))

\* C5: after pruning with S no surviving package matches S by name or by
\* name@versionInfo, and no surviving relationship has an endpoint that is the
\* SPDXID of an input package that matched S.
C5_RemovalComplete ==
    prune_calls > 0 =>
        /\ \A i \in 1..Len(cleaned_spdx.packages) :
              ~Matches(cleaned_spdx.packages[i], all_test_deps)
        /\ \A i \in 1..Len(Relationships(cleaned_spdx)) :
              /\ Relationships(cleaned_spdx)[i].spdxElementId \notin
                     MatchedIds(spdx_data, all_test_deps)
              /\ Relationships(cleaned_spdx)[i].relatedSpdxElement \notin
                     MatchedIds(spdx_data, all_test_deps)

\* a package matched only by its name@versionInfo and a relationship touching
\* it were removed, and something survived
C5_Witness ==
    /\ prune_calls > 0
    /\ \E i \in 1..Len(spdx_data.packages) :
          /\ spdx_data.packages[i].name \notin all_test_deps
          /\ Matches(spdx_data.packages[i], all_test_deps)
          /\ \E j \in 1..Len(Relationships(spdx_data)) :
                Relationships(spdx_data)[j].relatedSpdxElement =
                    spdx_data.packages[i].SPDXID
    /\ Relationships(cleaned_spdx) # <<>>
    /\ Len(cleaned_spdx.packages) >= 2

\* C6: pruning with an empty exclusion set returns the input document
\* unchanged, creationInfo and dangling relationships included.
C6_EmptyExclusionIsNoOp ==
    (prune_calls > 0 /\ all_test_deps = {}) => cleaned_spdx = spdx_data

\* the call was made with an empty set on a document with a dangling relationship
C6_Witness ==
    /\ prune_calls > 0
    /\ all_test_deps = {}
    /\ \E i \in 1..Len(Relationships(spdx_data)) : Dangling(spdx_data, i)

(***************************************************************************)
(* The field mapper on components that carry the optional keys: the        *)
(* payload is a parsed object or a text.                                   *)
(***************************************************************************)
MaxFieldComponents == 2

CompA1With(key, value) == Put(CompA1, key, value)

\* name and version absent or null
NameVersionPool ==
    {EmptyDict, CompA1, [name |-> <<"a">>], [version |-> <<"1">>],
     [name |-> Null, version |-> <<"1">>], [name |-> <<"a">>, version |-> Null]}

\* supplier objects with a name, with an empty name and without a name, each
\* with and without a publisher
SupplierPool ==
    {CompA1With("supplier", [name |-> <<"S">>]),
     Put(CompA1With("supplier", [name |-> <<"S">>]), "publisher", <<"P">>),
     CompA1With("publisher", <<"P">>),
     Put(CompA1With("supplier", EmptyDict), "publisher", <<"P">>),
     CompA1With("supplier", [name |-> <<>>]),
     Put(CompA1With("supplier", [name |-> <<>>]), "publisher", <<"P">>)}

TypeVcs == <<"v", "c", "s">>
TypeDistribution == <<"d", "i", "s", "t", "r", "i", "b", "u", "t", "i", "o", "n">>
TypeWebsite == <<"w", "e", "b", "s", "i", "t", "e">>

RefVcs == [type |-> TypeVcs, url |-> <<"U">>]
RefDistribution == [type |-> TypeDistribution, url |-> <<"D">>]
RefWebsite == [type |-> TypeWebsite, url |-> <<"W">>]
RefVcsNoUrl == [type |-> TypeVcs]
RefNoType == [url |-> <<"W">>]

\* reference lists with and without a match, with and without a purl
LocationPool ==
    {CompA1With("externalReferences", <<RefVcs>>),
     CompA1With("externalReferences", <<RefWebsite, RefDistribution, RefVcs>>),
     CompA1With("externalReferences", <<RefNoType, RefVcsNoUrl, RefVcs>>),
     Put(CompA1With("externalReferences", <<RefWebsite>>), "purl", <<"L">>),
     Put(CompA1With("externalReferences", <<>>), "purl", <<"L">>),
     CompA1With("externalReferences", <<RefWebsite>>),
     CompA1With("purl", <<"L">>)}

LicMit == [license |-> [id |-> <<"M", "I", "T">>]]
LicMitNamed == [license |-> [id |-> <<"M", "I", "T">>, name |-> <<"N">>]]
LicNamed == [license |-> [name |-> <<"N">>]]
LicEmpty == [license |-> EmptyDict]
LicExpression == [expression |-> <<"X", " ", "O", "R", " ", "Y">>]

\* license lists: one entry of each shape, several entries, entries that
\* resolve to nothing
LicensePool ==
    {CompA1With("licenses", <<LicMit>>),
     CompA1With("licenses", <<LicMitNamed>>),
     CompA1With("licenses", <<LicNamed>>),
     CompA1With("licenses", <<LicExpression>>),
     CompA1With("licenses", <<LicNamed, LicExpression, LicMit>>),
     CompA1With("licenses", <<LicEmpty, LicMitNamed>>),
     CompA1With("licenses", <<LicEmpty>>),
     CompA1With("licenses", <<>>)}

FieldComponentPool == NameVersionPool \cup SupplierPool \cup LocationPool \cup LicensePool

\* texts json.loads rejects: the empty text and a truncated object
UnparsableTexts == {<<>>, <<"{", "\"components\"", ":", "[">>}

StringPayloads ==
    {[text |-> o.text] : o \in JsonObjects} \cup {[text |-> t] : t \in UnparsableTexts}

InitFields ==
    /\ cyclonedx_data \in
           {[components |-> cs] : cs \in SeqsUpTo(FieldComponentPool, MaxFieldComponents)}
           \cup StringPayloads
    /\ dependency_edges = <<>>
    /\ direct_deps_order = <<>>
    /\ used_spdx_ids = {}
    /\ converted = <<>>
    /\ conversion_error = ""
    /\ NoComposeNoIds
    /\ spdx_data = None
    /\ all_test_deps = {}
    /\ cleaned_spdx = None
    /\ prune_calls = 0

SpecFields == InitFields /\ [][NextConvert]_vars

(***************************************************************************)
(* Properties of the field mapper, checked under SpecFields.               *)
(***************************************************************************)
\* the object the payload denotes
ParsedPayload ==
    IF IsStr(cyclonedx_data) THEN json_loads(cyclonedx_data.text).value
    ELSE cyclonedx_data

FieldComponents == Components(ParsedPayload)

\* the package the k-th conversion made of the i-th component
FieldPackage(k, i) == converted[k].packages[i + 1]

Mapped(k) == k \in 1..Len(converted) /\ converted[k] # None

AbsentOrNull(component, key) == key \notin DOMAIN component \/ component[key] = Null

\* C11: a component whose name or version is absent or null never makes the
\* conversion fail and never yields a null field: the name falls back to
\* "Unknown Component", the version to "0.0.0", and none of the six fields of a
\* package is null.
C11_DefaultsForMissingFields ==
    /\ conversion_error = ""
    /\ \A k \in 1..Len(converted) : Mapped(k) =>
          \A i \in 1..Len(FieldComponents) :
              /\ AbsentOrNull(FieldComponents[i], "name") =>
                     FieldPackage(k, i).name = DefaultComponentName
              /\ AbsentOrNull(FieldComponents[i], "version") =>
                     FieldPackage(k, i).versionInfo = DefaultComponentVersion
              /\ \A f \in {"name", "versionInfo", "supplier", "downloadLocation",
                           "licenseConcluded", "licenseDeclared"} :
                     FieldPackage(k, i)[f] # Null

\* the supplier the stated order gives: the supplier's name, else the
\* publisher, else the sentinel
Present(component, key) == key \in DOMAIN component /\ ~Falsy(component[key])

SupplierInOrder(component) ==
    IF "supplier" \in DOMAIN component /\ Present(component["supplier"], "name")
    THEN component["supplier"]["name"]
    ELSE IF Present(component, "publisher") THEN component["publisher"]
    ELSE NOASSERTION

\* C12: the supplier of every emitted package is the component's supplier name
\* if present, else its publisher if present, else NOASSERTION; it is never
\* empty.
C12_SupplierOrder ==
    \A k \in 1..Len(converted) : Mapped(k) =>
        \A i \in 1..Len(FieldComponents) :
            /\ FieldPackage(k, i).supplier =
                   <<"Organization: ">> \o SupplierInOrder(FieldComponents[i])
            /\ FieldPackage(k, i).supplier # <<"Organization: ">>

\* the references of a component that name a place to download from
IsLocationRef(ref) == "type" \in DOMAIN ref /\ ref["type"] \in {TypeVcs, TypeDistribution}

LocationRefs(component) ==
    {j \in 1..Len(component["externalReferences"]) :
        IsLocationRef(component["externalReferences"][j])}

FirstLocationRef(component) ==
    component["externalReferences"][
        CHOOSE j \in LocationRefs(component) : \A h \in LocationRefs(component) : j <= h]

\* C13: downloadLocation is the url of the first reference of type vcs or
\* distribution when the component has a reference list with one (NOASSERTION
\* when that reference carries no url), NOASSERTION when the list has none, even
\* if a purl is set; without a list it is the purl, and NOASSERTION without both.
C13_DownloadLocation ==
    \A k \in 1..Len(converted) : Mapped(k) =>
        \A i \in 1..Len(FieldComponents) :
            LET component == FieldComponents[i]
                location == FieldPackage(k, i).downloadLocation
            IN  IF "externalReferences" \in DOMAIN component
                THEN IF LocationRefs(component) # {}
                     THEN location = Get(FirstLocationRef(component), "url", NOASSERTION)
                     ELSE location = NOASSERTION
                ELSE IF "purl" \in DOMAIN component
                     THEN location = component["purl"]
                     ELSE location = NOASSERTION

\* converted: a component with a purl and a reference list without a match, and
\* one whose first match follows a reference of another type
C13_Witness ==
    /\ Mapped(1)
    /\ \E i \in 1..Len(FieldComponents) :
          /\ "externalReferences" \in DOMAIN FieldComponents[i]
          /\ "purl" \in DOMAIN FieldComponents[i]
          /\ LocationRefs(FieldComponents[i]) = {}
          /\ FieldPackage(1, i).downloadLocation = NOASSERTION
    /\ \E i \in 1..Len(FieldComponents) :
          /\ "externalReferences" \in DOMAIN FieldComponents[i]
          /\ LocationRefs(FieldComponents[i]) # {}
          /\ 1 \notin LocationRefs(FieldComponents[i])
          /\ FieldPackage(1, i).downloadLocation = <<"D">>

\* what one license entry resolves to: the id, else the name, else the
\* expression; <<>> when it has none of them
EntryResolvesTo(entry) ==
    IF "license" \in DOMAIN entry /\ Present(entry["license"], "id")
    THEN entry["license"]["id"]
    ELSE IF "license" \in DOMAIN entry /\ Present(entry["license"], "name")
    THEN entry["license"]["name"]
    ELSE IF Present(entry, "expression") THEN entry["expression"]
    ELSE <<>>

\* the resolved identifiers of a list of entries, joined in input order
RECURSIVE JoinedResolved(_)
JoinedResolved(entries) ==
    IF entries = <<>> THEN <<>>
    ELSE LET rest == JoinedResolved(Tail(entries))
             first == EntryResolvesTo(entries[1])
         IN  IF first = <<>> THEN rest
             ELSE IF rest = <<>> THEN first
             ELSE first \o AndSeparator \o rest

\* C14: licenseConcluded and licenseDeclared of every emitted package both are
\* the identifiers its license entries resolve to (id, else name, else
\* expression) joined with " AND " in input order, and NOASSERTION when no
\* entry resolves.
C14_LicenseString ==
    \A k \in 1..Len(converted) : Mapped(k) =>
        \A i \in 1..Len(FieldComponents) :
            LET joined == JoinedResolved(Get(FieldComponents[i], "licenses", <<>>))
                expected == IF joined = <<>> THEN NOASSERTION ELSE joined
            IN  /\ FieldPackage(k, i).licenseConcluded = expected
                /\ FieldPackage(k, i).licenseDeclared = expected

\* converted: a component with several entries of different shapes, one whose
\* entry has both an id and a name, and one whose only entry resolves to nothing
C14_Witness ==
    /\ Mapped(1)
    /\ \E i \in 1..Len(FieldComponents) :
          /\ Len(Get(FieldComponents[i], "licenses", <<>>)) = 3
          /\ FieldPackage(1, i).licenseDeclared =
                 <<"N">> \o AndSeparator \o <<"X", " ", "O", "R", " ", "Y">>
                 \o AndSeparator \o <<"M", "I", "T">>
    /\ \E i \in 1..Len(FieldComponents) :
          /\ Get(FieldComponents[i], "licenses", <<>>) = <<LicEmpty>>
          /\ FieldPackage(1, i).licenseConcluded = NOASSERTION

Unparsable(payload) == IsStr(payload) /\ ~json_loads(payload.text).ok

\* C20: a call given an unparsable payload returns None, raises nothing, and
\* returns no document, not even the one laid out before parsing.
C20_UnparsableReturnsNone ==
    Unparsable(cyclonedx_data) =>
        /\ conversion_error = ""
        /\ \A k \in 1..Len(converted) : converted[k] = None

\* a call on the truncated object has returned
C20_Witness ==
    /\ Unparsable(cyclonedx_data)
    /\ cyclonedx_data.text # <<>>
    /\ Len(converted) >= 1

(***************************************************************************)
(* Edge resolution on names that contain '@' themselves (scoped packages). *)
(***************************************************************************)
CompScoped == [name |-> <<"@", "s", "/", "p">>, version |-> <<"1">>]

NameA1 == <<"p", ":", "/", "/", "a", "@", "1">>
NameB1 == <<"p", ":", "/", "/", "b", "@", "1">>
NameScoped == <<"n", ":", "/", "/", "@", "s", "/", "p", "@", "1">>

ScopedDocuments ==
    {[components |-> <<CompScoped>>],
     [components |-> <<CompA1, CompScoped>>],
     [components |-> <<CompA1, CompB1>>]}

ScopedEdgePool ==
    {Edge(NameScoped, TRUE, <<>>), Edge(NameScoped, FALSE, NameA1),
     Edge(NameA1, TRUE, <<>>), Edge(NameA1, FALSE, NameScoped),
     Edge(NameB1, FALSE, NameA1), Edge(NameB1, TRUE, <<>>)}

InitEdges ==
    /\ cyclonedx_data \in ScopedDocuments
    /\ dependency_edges \in SeqsUpTo(ScopedEdgePool, MaxEdges)
    /\ direct_deps_order \in Orders(DirectDependencies(dependency_edges))
    /\ used_spdx_ids = {}
    /\ converted = <<>>
    /\ conversion_error = ""
    /\ NoComposeNoIds
    /\ spdx_data = None
    /\ all_test_deps = {}
    /\ cleaned_spdx = None
    /\ prune_calls = 0

SpecEdges == InitEdges /\ [][NextConvert]_vars

(***************************************************************************)
(* Properties of the relationship derivation.                              *)
(***************************************************************************)
\* the edge's name without scheme and without the trailing "@version"
BareName(edge) ==
    LET name == StripScheme(edge.name)
        suffix == <<"@">> \o edge.version
    IN  IF Len(name) >= Len(suffix)
           /\ SubSeq(name, Len(name) - Len(suffix) + 1, Len(name)) = suffix
        THEN SubSeq(name, 1, Len(name) - Len(suffix))
        ELSE name

\* {bare name}@{resolved version}
EdgeKey(edge) == BareName(edge) \o <<"@">> \o edge.version

\* the mapper's lookup table, read off the packages it emitted: the component
\* packages named by a key, and the ID recorded for it (the last one mapped)
KeyedPackages(doc, key) ==
    {i \in 2..Len(doc.packages) :
        FullPackageName(doc.packages[i].name, doc.packages[i].versionInfo) = key}

Resolves(doc, key) == KeyedPackages(doc, key) # {}

RecordedId(doc, key) ==
    doc.packages[CHOOSE i \in KeyedPackages(doc, key) :
                     \A j \in KeyedPackages(doc, key) : j <= i].SPDXID

ApplicationOf(doc) == doc.packages[1].SPDXID

\* C15: an edge is resolved by the key {bare name}@{resolved version} to the
\* SPDXID the mapper recorded for that key, also when the name itself contains
\* '@': a direct edge whose key is in the table is connected to that package,
\* every DEPENDS_ON target is the package recorded for the key of some edge, and
\* no conversion ends in an error.
C15_EdgeResolution ==
    /\ conversion_error = ""
    /\ \A k \in 1..Len(converted) : Mapped(k) =>
          /\ \A e \in 1..Len(dependency_edges) :
                (dependency_edges[e].is_direct
                 /\ Resolves(converted[k], EdgeKey(dependency_edges[e])))
                => HasRelationship(converted[k], ApplicationOf(converted[k]),
                                   RecordedId(converted[k], EdgeKey(dependency_edges[e])),
                                   "DEPENDS_ON")
          /\ \A r \in 1..Len(Relationships(converted[k])) :
                Relationships(converted[k])[r].relationshipType = "DEPENDS_ON"
                => \E e \in 1..Len(dependency_edges) :
                      /\ Resolves(converted[k], EdgeKey(dependency_edges[e]))
                      /\ Relationships(converted[k])[r].relatedSpdxElement =
                             RecordedId(converted[k], EdgeKey(dependency_edges[e]))

\* C16: every edge whose parent is empty or which is marked direct, and whose
\* child resolves, yields DEPENDS_ON (application -> child) and DEPENDENCY_OF
\* (child -> application).
C16_DirectEdgesConnected ==
    \A k \in 1..Len(converted) : Mapped(k) =>
        \A e \in 1..Len(dependency_edges) :
            LET edge == dependency_edges[e]
                doc == converted[k]
            IN  ((edge.parent = <<>> \/ edge.is_direct) /\ Resolves(doc, EdgeKey(edge)))
                => /\ HasRelationship(doc, ApplicationOf(doc),
                                      RecordedId(doc, EdgeKey(edge)), "DEPENDS_ON")
                   /\ HasRelationship(doc, RecordedId(doc, EdgeKey(edge)),
                                      ApplicationOf(doc), "DEPENDENCY_OF")

\* the key of a parent reference: the parent's full name without the scheme
ParentKey(edge) == StripScheme(edge.parent)

\* C17: every edge that is not direct and has a parent, with parent and child
\* both resolving, yields DEPENDS_ON (parent -> child) and DEPENDENCY_OF (child
\* -> parent); and DEPENDS_ON between two component packages is present only if
\* some edge names that parent and that child.
C17_TransitiveEdgesConnected ==
    \A k \in 1..Len(converted) : Mapped(k) =>
        LET doc == converted[k]
        IN  /\ \A e \in 1..Len(dependency_edges) :
                  LET edge == dependency_edges[e]
                  IN  (~edge.is_direct /\ edge.parent # <<>>
                       /\ Resolves(doc, ParentKey(edge)) /\ Resolves(doc, EdgeKey(edge)))
                      => /\ HasRelationship(doc, RecordedId(doc, ParentKey(edge)),
                                            RecordedId(doc, EdgeKey(edge)), "DEPENDS_ON")
                         /\ HasRelationship(doc, RecordedId(doc, EdgeKey(edge)),
                                            RecordedId(doc, ParentKey(edge)),
                                            "DEPENDENCY_OF")
            /\ \A r \in 1..Len(Relationships(doc)) :
                  LET rel == Relationships(doc)[r]
                  IN  (rel.relationshipType = "DEPENDS_ON"
                       /\ rel.spdxElementId \in Range(ComponentPackageIds(doc)))
                      => \E e \in 1..Len(dependency_edges) :
                            /\ dependency_edges[e].parent # <<>>
                            /\ Resolves(doc, ParentKey(dependency_edges[e]))
                            /\ Resolves(doc, EdgeKey(dependency_edges[e]))
                            /\ rel.spdxElementId =
                                   RecordedId(doc, ParentKey(dependency_edges[e]))
                            /\ rel.relatedSpdxElement =
                                   RecordedId(doc, EdgeKey(dependency_edges[e]))

\* C19: with an empty component list every converted document has the
\* application package as its only package and DESCRIBES (document ->
\* application) as its only relationship, whatever the edges.
C19_EmptyComponentList ==
    InputComponents = <<>> =>
        \A k \in 1..Len(converted) :
            /\ converted[k] # None
            /\ Len(converted[k].packages) = 1
            /\ converted[k].packages[1].name = <<Namespace, " Application">>
            /\ Relationships(converted[k]) =
                   <<Relationship(DocumentId, converted[k].packages[1].SPDXID,
                                  "DESCRIBES")>>

\* converted with no component, a direct edge and an edge with a parent
C19_Witness ==
    /\ InputComponents = <<>>
    /\ Len(converted) >= 1
    /\ \E e \in 1..Len(dependency_edges) :
          dependency_edges[e].is_direct /\ HasAt(dependency_edges[e].name)
    /\ \E e \in 1..Len(dependency_edges) : dependency_edges[e].parent # <<>>

(***************************************************************************)
(* The package list after pruning, checked under SpecPrune.                *)
(***************************************************************************)
NonMatching(package) == ~Matches(package, all_test_deps)

IdNotMatched(package) == package.SPDXID \notin MatchedIds(spdx_data, all_test_deps)

\* C18 as stated: after pruning with a non-empty exclusion set the package list
\* is exactly the subsequence of the input packages that do not match the set,
\* each unchanged.
C18_NonMatchingSubsequence ==
    (prune_calls > 0 /\ all_test_deps # {}) =>
        cleaned_spdx.packages = SelectSeq(spdx_data.packages, NonMatching)

\* C18 amended: after pruning with a non-empty exclusion set the package list
\* is exactly the subsequence of the input packages whose SPDXID is not the
\* SPDXID of a matching package, each unchanged; when the SPDXIDs of the input
\* packages are pairwise distinct this is the subsequence of the packages that
\* do not match.
C18_SubsequenceByUnmatchedId ==
    (prune_calls > 0 /\ all_test_deps # {}) =>
        /\ cleaned_spdx.packages = SelectSeq(spdx_data.packages, IdNotMatched)
        /\ PairwiseDistinct(PackageIds(spdx_data)) =>
               cleaned_spdx.packages = SelectSeq(spdx_data.packages, NonMatching)

\* pruned: a package that does not match went with the matching package whose
\* SPDXID it repeats, and another package survived
C18_Witness ==
    /\ prune_calls > 0
    /\ all_test_deps # {}
    /\ \E i \in 1..Len(spdx_data.packages) :
          /\ NonMatching(spdx_data.packages[i])
          /\ ~IdNotMatched(spdx_data.packages[i])
    /\ Len(cleaned_spdx.packages) >= 1

(***************************************************************************)
(* Calls of generate_unique_spdx_id on one used-ID set, as the component   *)
(* loop makes them.                                                        *)
(***************************************************************************)
MaxIdCalls == 3

\* names that sanitize to the same text, and a name without any letter or digit
IdNames == {<<"a">>, <<"a", "/", "b">>, <<"a", " ", "b">>, <<"-", "_">>}

\* no version, a version, and a version without any letter or digit
IdVersions == {<<>>, <<"1">>, <<".">>}

PackageId(text) == <<"SPDXRef-Package-">> \o text

\* used-ID sets the first call may find: empty, a base ID, a base ID whose
\* second suffix is taken, and the IDs of a name without letters and digits
IdUsedSets ==
    {{},
     {PackageId(<<"a">>)},
     {PackageId(<<"a">>), PackageId(<<"a", "-", "2">>)},
     {PackageId(<<>>), PackageId(<<"-", "1">>)}}

InitIds ==
    /\ used_spdx_ids \in IdUsedSets
    /\ id_name = <<>>
    /\ id_version = <<>>
    /\ issued_ids = <<>>
    /\ second_test_deps = {}
    /\ recleaned_spdx = EmptyDict
    /\ union_cleaned = EmptyDict
    /\ cyclonedx_data = None
    /\ dependency_edges = <<>>
    /\ direct_deps_order = <<>>
    /\ converted = <<>>
    /\ conversion_error = ""
    /\ spdx_data = None
    /\ all_test_deps = {}
    /\ cleaned_spdx = None
    /\ prune_calls = 0

\* spdx_id = generate_unique_spdx_id(component_name, component_version, used_spdx_ids)
GenerateId(component_name, component_version) ==
    /\ Len(issued_ids) < MaxIdCalls
    /\ LET result == generate_unique_spdx_id(component_name, component_version,
                                             used_spdx_ids)
       IN  /\ issued_ids' = Append(issued_ids, result.id)
           /\ used_spdx_ids' = result.used
    /\ id_name' = component_name
    /\ id_version' = component_version
    /\ UNCHANGED <<cyclonedx_data, dependency_edges, direct_deps_order, converted,
                   conversion_error, spdx_data, all_test_deps, cleaned_spdx,
                   prune_calls, compose_vars>>

NextIds ==
    \E component_name \in IdNames, component_version \in IdVersions :
        GenerateId(component_name, component_version)

SpecIds == InitIds /\ [][NextIds]_vars

(***************************************************************************)
(* Properties of the identifier generator, checked under SpecIds.          *)
(***************************************************************************)
\* SPDXRef-Package-{sanitized name}[-{sanitized version}]
ExpectedBase(name, version) ==
    PackageId(Sanitize(name))
    \o (IF Sanitize(version) # <<>> THEN <<"-">> \o Sanitize(version) ELSE <<>>)

Suffixed(base, k) == base \o <<"-">> \o Str(k)

\* the base, or the base with the smallest suffix k >= 1 that is free
FirstFree(base, used) ==
    IF base \notin used THEN base
    ELSE Suffixed(base, CHOOSE k \in 1..(Cardinality(used) + 1) :
                            /\ Suffixed(base, k) \notin used
                            /\ \A h \in 1..(k - 1) : Suffixed(base, h) \in used)

LastIssued == issued_ids'[Len(issued_ids')]

\* C21: every call returns the base ID when it is free and else the base with
\* the smallest free suffix -k, k >= 1; the returned ID was not in the used set
\* before the call, and the call adds it and changes nothing else in the set.
C21_FirstFreeId ==
    [][issued_ids' # issued_ids =>
          /\ LastIssued = FirstFree(ExpectedBase(id_name', id_version'), used_spdx_ids)
          /\ LastIssued \notin used_spdx_ids
          /\ used_spdx_ids' = used_spdx_ids \cup {LastIssued}]_vars

\* the first call found the base and its suffix -2 taken and returned suffix -1
C21_Witness ==
    /\ issued_ids = <<PackageId(<<"a", "-", "1">>)>>
    /\ id_name = <<"a">>
    /\ id_version = <<>>
    /\ PackageId(<<"a", "-", "2">>) \in used_spdx_ids

\* the text after the prefix is non-empty, over [A-Za-z0-9-], without two
\* consecutive hyphens and without a hyphen at its end
WellFormedId(id) ==
    /\ id # <<>>
    /\ Head(id) = "SPDXRef-Package-"
    /\ LET text == Tail(id)
       IN  /\ text # <<>>
           /\ \A i \in 1..Len(text) : text[i] \in Alnum \cup {"-"}
           /\ \A i \in 1..(Len(text) - 1) : ~(text[i] = "-" /\ text[i + 1] = "-")
           /\ text[Len(text)] # "-"

\* C27: every ID generate_unique_spdx_id returns is "SPDXRef-Package-" followed
\* by a non-empty text over [A-Za-z0-9-] that has no two consecutive hyphens
\* and does not end with a hyphen, also for names without any letter or digit
\* and for empty versions.
C27_WellFormedIds == \A i \in 1..Len(issued_ids) : WellFormedId(issued_ids[i])

(***************************************************************************)
(* The used-ID set of a conversion, checked under SpecConvert.             *)
(***************************************************************************)
LastConverted == converted[Len(converted)]

\* C22 as stated: the used-ID set of a conversion holds the application ID and
\* SPDXRef-DOCUMENT from before the first component on, and no component
\* package has either of them as its ID.
C22_BothIdsRegistered ==
    (Len(converted) >= 1 /\ LastConverted # None) =>
        /\ ApplicationOf(LastConverted) \in used_spdx_ids
        /\ DocumentId \in used_spdx_ids
        /\ \A id \in Range(ComponentPackageIds(LastConverted)) :
               id \notin {ApplicationOf(LastConverted), DocumentId}

\* C22 amended: the used-ID set of a conversion holds the application ID from
\* before the first component on, and never SPDXRef-DOCUMENT; no component
\* package has either of them as its ID, every component ID being
\* "SPDXRef-Package-" followed by a text.
C22_ApplicationIdRegistered ==
    (Len(converted) >= 1 /\ LastConverted # None) =>
        /\ ApplicationOf(LastConverted) \in used_spdx_ids
        /\ DocumentId \notin used_spdx_ids
        /\ \A id \in Range(ComponentPackageIds(LastConverted)) :
               /\ id \notin {ApplicationOf(LastConverted), DocumentId}
               /\ Head(id) = "SPDXRef-Package-"
        /\ used_spdx_ids = {ApplicationOf(LastConverted)}
                           \cup Range(ComponentPackageIds(LastConverted))

\* a conversion of several components has ended
C22_Witness ==
    /\ Len(converted) >= 1
    /\ LastConverted # None
    /\ Len(ComponentPackageIds(LastConverted)) >= 2
    /\ ApplicationOf(LastConverted) \in used_spdx_ids

(***************************************************************************)
(* The document handed to the pruner, checked under SpecPrune.             *)
(***************************************************************************)
\* C23: no call of remove_test_dependencies changes the document passed to it:
\* its packages, relationships, documentDescribes and creationInfo, like all
\* its other keys, are after the call what they were before.
C23_InputNotMutated == [][spdx_data' = spdx_data]_vars

\* a call with a non-empty exclusion set returned a document whose packages,
\* relationships and creationInfo all differ from those of the input
C23_Witness ==
    /\ prune_calls > 0
    /\ all_test_deps # {}
    /\ cleaned_spdx.packages # spdx_data.packages
    /\ Relationships(cleaned_spdx) # Relationships(spdx_data)
    /\ cleaned_spdx.creationInfo # spdx_data.creationInfo

(***************************************************************************)
(* Pruning in two calls and in one: the document is pruned, the result is  *)
(* pruned again, and the document is pruned with both exclusion sets.      *)
(***************************************************************************)
\* non-empty exclusion sets of the first and of the second call
FirstExclusions ==
    {{<<"a", "@", "1">>}, {<<"b">>}, {<<"a", "@", "1">>, <<"b">>},
     {<<Namespace, " Application">>}}

SecondExclusions == {{<<"a", "@", "1">>}, {<<"b">>}}

\* remove_test_dependencies on the document the first call returned
PruneAgain(test_dependencies) ==
    /\ prune_calls = 1
    /\ all_test_deps # {}
    /\ second_test_deps' = test_dependencies
    /\ recleaned_spdx' = remove_test_dependencies(cleaned_spdx, test_dependencies,
                                                  <<>>, <<>>, prune_calls + 1)
    /\ cleaned_spdx' = InputAfterCall(cleaned_spdx, test_dependencies, recleaned_spdx')
    /\ prune_calls' = prune_calls + 1
    /\ UNCHANGED <<spdx_data, all_test_deps, union_cleaned, cyclonedx_data,
                   dependency_edges, used_spdx_ids, converted, conversion_error,
                   direct_deps_order, id_vars>>

\* remove_test_dependencies on the first document with both sets at once
PruneUnion ==
    /\ prune_calls = 2
    /\ union_cleaned' = remove_test_dependencies(spdx_data,
                                                 all_test_deps \cup second_test_deps,
                                                 <<>>, <<>>, prune_calls + 1)
    /\ spdx_data' = InputAfterCall(spdx_data, all_test_deps \cup second_test_deps,
                                   union_cleaned')
    /\ prune_calls' = prune_calls + 1
    /\ UNCHANGED <<all_test_deps, cleaned_spdx, second_test_deps, recleaned_spdx,
                   cyclonedx_data, dependency_edges, used_spdx_ids, converted,
                   conversion_error, direct_deps_order, id_vars>>

NextCompose ==
    \/ \E test_dependencies \in FirstExclusions : Prune(test_dependencies, <<>>, <<>>, 1)
    \/ \E test_dependencies \in SecondExclusions : PruneAgain(test_dependencies)
    \/ PruneUnion

SpecCompose == InitPrune /\ [][NextCompose]_vars

\* C24: pruning a document with S and the result with T gives the package list
\* and the relationship list that pruning the document once with S union T
\* gives (S and T non-empty), also when T = S.
C24_PruningComposes ==
    prune_calls = 3 =>
        /\ recleaned_spdx.packages = union_cleaned.packages
        /\ ("relationships" \in DOMAIN recleaned_spdx)
               = ("relationships" \in DOMAIN union_cleaned)
        /\ Relationships(recleaned_spdx) = Relationships(union_cleaned)

\* each of the two calls removed a package and the relationships changed
C24_Witness ==
    /\ prune_calls = 3
    /\ Len(spdx_data.packages) > Len(cleaned_spdx.packages)
    /\ Len(cleaned_spdx.packages) > Len(recleaned_spdx.packages)
    /\ Relationships(recleaned_spdx) # <<>>
    /\ Relationships(recleaned_spdx) # Relationships(spdx_data)

(***************************************************************************)
(* The relationship list after pruning, checked under SpecPrune.           *)
(***************************************************************************)
\* every DEPENDS_ON (a,b) has its DEPENDENCY_OF (b,a) and the other way round
Symmetric(doc) ==
    \A i \in 1..Len(Relationships(doc)) :
        LET rel == Relationships(doc)[i]
        IN  /\ rel.relationshipType = "DEPENDS_ON" =>
                   HasRelationship(doc, rel.relatedSpdxElement, rel.spdxElementId,
                                   "DEPENDENCY_OF")
            /\ rel.relationshipType = "DEPENDENCY_OF" =>
                   HasRelationship(doc, rel.relatedSpdxElement, rel.spdxElementId,
                                   "DEPENDS_ON")

\* C25: when every DEPENDS_ON (a,b) of the input document has its
\* DEPENDENCY_OF (b,a) and vice versa, the same is true of the document
\* remove_test_dependencies returns, for any exclusion set.
C25_PruningKeepsSymmetry ==
    (prune_calls > 0 /\ Symmetric(spdx_data)) => Symmetric(cleaned_spdx)

\* a pair of the input was removed whole, one of its endpoints being no
\* package of the document, while a component package survived
C25_Witness ==
    /\ prune_calls > 0
    /\ all_test_deps # {}
    /\ Symmetric(spdx_data)
    /\ \E i \in 1..Len(Relationships(spdx_data)) :
          /\ Relationships(spdx_data)[i].relationshipType = "DEPENDS_ON"
          /\ Relationships(spdx_data)[i].relatedSpdxElement
                 \notin Range(PackageIds(spdx_data))
    /\ Relationships(cleaned_spdx) = <<>>
    /\ Len(cleaned_spdx.packages) >= 2

EndpointNotRemoved(rel) ==
    /\ rel.spdxElementId \notin MatchedIds(spdx_data, all_test_deps)
    /\ rel.relatedSpdxElement \notin MatchedIds(spdx_data, all_test_deps)

\* C26: for an input document with pairwise distinct package SPDXIDs whose
\* relationships all end in SPDXRef-DOCUMENT or a package, the returned
\* relationship list is the input list without the relationships that have an
\* endpoint among the removed IDs, in the original order: the second pass
\* removes nothing.
C26_SecondPassRemovesNothing ==
    (prune_calls > 0 /\ PairwiseDistinct(PackageIds(spdx_data))
     /\ EndpointsExist(spdx_data)) =>
        Relationships(cleaned_spdx)
            = SelectSeq(Relationships(spdx_data), EndpointNotRemoved)

\* such a document was pruned: DESCRIBES was kept and a relationship of a
\* removed package went
C26_Witness ==
    /\ prune_calls > 0
    /\ all_test_deps # {}
    /\ PairwiseDistinct(PackageIds(spdx_data))
    /\ EndpointsExist(spdx_data)
    /\ Len(Relationships(spdx_data)) = 2
    /\ Relationships(cleaned_spdx) = <<Relationship(DocumentId, PruneAppId, "DESCRIBES")>>

====
